---------------------------- MODULE Spec2Model ----------------------------
(***************************************************************************)
(* A model of the bsa binding engine (package bsa, func Bind) and of the   *)
(* closures it installs, checked against the properties of spec.md.        *)
(*                                                                         *)
(* Go types are sequences of constructors: <<"ptr","User">> is *User,      *)
(* <<"slice","ptr","User">> is []*User.  SQL texts and file names are      *)
(* sequences of tokens, so that strings.CutPrefix and strings.HasSuffix    *)
(* are computed, not assumed.                                              *)
(***************************************************************************)
EXTENDS Integers, Sequences, FiniteSets, TLC

\* ------------------------------------------------------------- bounds
MaxFields == 2
MaxRows == 2
MaxTx == 2

\* ------------------------------------------------------------- Go types
errorType == <<"error">>
int64Type == <<"int64">>
UserType == <<"User">>
PtrUserType == <<"ptr", "User">>
SliceType == <<"slice", "ptr", "User">>

\* reflect.Type.Kind()
Kind(t) == IF t[1] \in {"ptr", "slice"} THEN t[1]
           ELSE IF t = errorType THEN "interface"
           ELSE IF t = int64Type THEN "int64" ELSE "struct"
\* reflect.New(t).Type(): the pointer type to t
PtrTo(t) == <<"ptr">> \o t
\* reflect.Type.Elem()
Elem(t) == Tail(t)

\* ------------------------------------------------------------- values
\* Every run-time value is a record of one shape, so that any two compare.
\*   kind "res"    : a value satisfying DBResource; n = 0 is the *sql.DB
\*                   given to Bind, n = t > 0 the transaction handle t
\*   kind "nilres" : the nil DBResource interface value (SQL NULL as a parameter)
\*   kind "str"    : a string, kind "int" : an integer
Res(n) == [kind |-> "res", s |-> "", n |-> n]
NilRes == [kind |-> "nilres", s |-> "", n |-> 0]
StrV(s) == [kind |-> "str", s |-> s, n |-> 0]
IntV(n) == [kind |-> "int", s |-> "", n |-> n]

\* args[0].Interface().(DBResource): the dynamic type implements DBResource
IsDBResource(v) == v.kind = "res"

Txs == 1..MaxTx

\* ------------------------------------------------------------- query texts
\* The SQL of the test repository (UserRepository), one token per statement.
InsertSQL == <<"insert into users(name, age) values ($1, $2)">>
InsertNullSQL == <<"insert into users(name, age) values (?, NULL)">>
InsertTxSQL == <<"insert into users(name, age) values (?, ?)">>
SelectOneSQL == <<"select * from users where id = $1">>
SelectAllSQL == <<"select * from users">>
InsertSteveSQL == <<"insert into users(name, age) values ('steve', 30)">>
\* The row test/insert_user_steve.sql inserts (TestQueryLoader reads "steve" back).
SteveRow == [name |-> "steve", age |-> 30]
FileSteve == <<"file:", "insert_user_steve">>
FileSteveExt == <<"file:", "insert_user_steve", ".sql">>
FileMissing == <<"file:", "no_such_file">>

\* The files below the loader's root: name (with extension) -> content.
Files == (<<"insert_user_steve", ".sql">> :> InsertSteveSQL)

\* fsQueryLoader.Get: the file's text, or the error of Open
Get(name) ==
  IF name \in DOMAIN Files THEN [err |-> FALSE, text |-> Files[name]]
  ELSE [err |-> TRUE, text |-> <<>>]

\* strings.CutPrefix(q, "file:")
CutPrefix(q) ==
  IF Len(q) >= 1 /\ q[1] = "file:" THEN [spec |-> Tail(q), found |-> TRUE]
  ELSE [spec |-> q, found |-> FALSE]

\* strings.HasSuffix(spec, ".sql")
HasSuffix(spec) == Len(spec) >= 1 /\ spec[Len(spec)] = ".sql"

\* resolveQuery: literal text verbatim; "file:<name>" through the loader,
\* ".sql" appended when absent.  err names the field (fnName).
resolveQuery(q, fnName) ==
  LET cut == CutPrefix(q) IN
  IF cut.found THEN
    LET name == IF HasSuffix(cut.spec) THEN cut.spec ELSE cut.spec \o <<".sql">>
        got == Get(name)
    IN IF got.err THEN [err |-> TRUE, fnName |-> fnName, script |-> <<>>]
       ELSE [err |-> FALSE, fnName |-> "", script |-> got.text]
  ELSE [err |-> FALSE, fnName |-> "", script |-> cut.spec]

\* ------------------------------------------------------------- runner
\* The zero value of a func-typed struct field (nil func).
NoFunc == [set |-> FALSE, isExec |-> FALSE, single |-> FALSE, query |-> <<>>,
           outs |-> <<>>, conv |-> "nil"]

\* runner(typ, isExec, singleSelection, query): the closure chosen by the
\* number of declared results alone; any other count panics
\* ("unsupported return type").  The types of the results are not looked at.
runner(outs, isExec, singleSelection, query) ==
  LET numOut == Len(outs)
      conv == IF isExec
                THEN (CASE numOut = 0 -> "exec0"
                        [] numOut = 1 -> "exec1"
                        [] numOut = 2 -> "exec2"
                        [] numOut = 3 -> "exec3"
                        [] OTHER -> "panic")
                ELSE (CASE numOut = 1 -> "query1"
                        [] numOut = 2 -> "query2"
                        [] OTHER -> "panic")
  IN IF conv = "panic" THEN [panic |-> TRUE, fn |-> NoFunc]
     ELSE [panic |-> FALSE,
           fn |-> [set |-> TRUE, isExec |-> isExec, single |-> singleSelection,
                   query |-> query, outs |-> outs, conv |-> conv]]

\* ------------------------------------------------------------- Bind
\* The directive of a field, by the precedence of the if / else-if chain:
\* @queryOne, then @query, then @exec; "" (an empty tag) counts as absent.
Directive(field) ==
  IF field.queryOne # <<>> THEN [kind |-> "queryOne", text |-> field.queryOne]
  ELSE IF field.queryAll # <<>> THEN [kind |-> "queryAll", text |-> field.queryAll]
  ELSE IF field.exec # <<>> THEN [kind |-> "exec", text |-> field.exec]
  ELSE [kind |-> "none", text |-> <<>>]

\* The loop over the struct's fields, from field i on, value being the struct
\* instance as installed so far.  Fields are set one by one, in place.
RECURSIVE BindFields(_, _, _)
BindFields(fields, i, value) ==
  IF i > Len(fields) THEN [result |-> "ok", errField |-> "", value |-> value]
  ELSE
    LET field == fields[i] IN
    IF ~(field.isFunc /\ field.exported) THEN BindFields(fields, i + 1, value)
    ELSE
      LET d == Directive(field) IN
      IF d.kind = "none"
        THEN [result |-> "error", errField |-> field.name, value |-> value]
      ELSE
        LET r == resolveQuery(d.text, field.name) IN
        IF r.err
          THEN [result |-> "error", errField |-> r.fnName, value |-> value]
        ELSE
          LET f == runner(field.outs, d.kind = "exec", d.kind = "queryOne", r.script) IN
          IF f.panic
            THEN [result |-> "panic", errField |-> "", value |-> value]
          ELSE BindFields(fields, i + 1, [value EXCEPT ![i] = f.fn])

\* Bind(ctx, handle, dst, qLoder, lastInsertIDSupport) on a target dst:
\*   dst.kind = "nil"     untyped nil: reflect.TypeOf(nil) is nil, and
\*                        vType.Kind() dereferences it (a run-time panic)
\*   dst.kind = "nonptr"  not a pointer
\*   dst.kind = "ptr"     a pointer to dst.elem ("struct" or not)
BindResult(dst) ==
  LET zero == [i \in 1..Len(dst.fields) |-> NoFunc] IN
  IF dst.kind = "nil" THEN [result |-> "panic", errField |-> "", value |-> zero]
  ELSE IF dst.kind # "ptr" THEN [result |-> "error", errField |-> "", value |-> zero]
  ELSE IF dst.elem # "struct" THEN [result |-> "error", errField |-> "", value |-> zero]
  ELSE BindFields(dst.fields, 1, zero)

\* ------------------------------------------------------------- state
VARIABLES
  dst,                  \* the target given to Bind
  lastInsertIDSupport,  \* Bind's flag
  goroutines,           \* the callers of the bound functions
  faults,               \* the failures the driver and the scanner may report
  names,                \* the strings callers pass
  overrides,            \* the DBResource values callers pass, transactions apart
  bindState,            \* "unbound", then Bind's outcome: "ok", "error", "panic"
  bindErr,              \* the field the returned error names
  value,                \* the struct instance: its func fields, as installed
  cancelled,            \* ctx (the one given to Bind) is cancelled
  committed,            \* the users table: committed rows
  nextId,               \* the table's AUTOINCREMENT counter
  txState,              \* per transaction: "none", "open", "committed", "rolledback"
  txWrites,             \* per transaction: the rows it wrote, not yet committed
  inflight,             \* per goroutine: the call whose database operation is outstanding
  last,                 \* the call that completed last and what its caller got,
                        \* until the next call begins
  inserted              \* history: per successful insert, what its caller asked for

vars == <<dst, lastInsertIDSupport, goroutines, faults, names, overrides, bindState, bindErr, value,
          cancelled, committed, nextId, txState, txWrites, inflight, last, inserted>>

\* The default resource given to Bind (the *sql.DB).
handle == Res(0)

\* ------------------------------------------------------------- reflect values
\* A reflect.Value: its type, whether it is nil, the row(s) it holds (a
\* scanned struct, or the elements of a slice), its integer, its error text.
I64(n) == [typ |-> int64Type, isNil |-> FALSE, rows |-> <<>>, n |-> n, err |-> ""]
\* reflect.Zero(t)
Zero(t) == [typ |-> t, isNil |-> Kind(t) \in {"ptr", "slice", "interface"},
            rows |-> <<>>, n |-> 0, err |-> ""]
\* reflect.New(t): a non-nil pointer to a zero t
New(t) == [typ |-> PtrTo(t), isNil |-> FALSE, rows |-> <<>>, n |-> 0, err |-> ""]
\* getErrorValue(err): reflect.Zero(errorType) for nil, else reflect.ValueOf(err)
getErrorValue(err) ==
  [typ |-> errorType, isNil |-> err = "", rows |-> <<>>, n |-> 0, err |-> err]

\* ------------------------------------------------------------- the database
\* What the tests' sqlite database and sql.Tx do with the statements above.
ErrNoRows == "sql: no rows in result set"
ErrCanceled == "context canceled"
ErrTxDone == "sql: transaction has already been committed or rolled back"

\* The rows a resource sees: the committed ones and, in a transaction, its own.
Visible(executor) ==
  IF executor.n = 0 THEN committed ELSE committed \cup txWrites[executor.n]

RECURSIVE SortedRows(_)
SortedRows(S) ==
  IF S = {} THEN <<>>
  ELSE LET r == CHOOSE x \in S : \A y \in S : x.id <= y.id
       IN <<r>> \o SortedRows(S \ {r})

\* Errors of ExecContext / QueryContext that do not depend on the statement.
\* A cancelled ctx fails the operation, unless the cancellation came while the
\* operation was outstanding and too late to stop it (fault "late").
ResourceErr(executor, fault, live) ==
  IF cancelled /\ ~(live /\ fault = "late") THEN ErrCanceled
  ELSE IF executor.n # 0 /\ txState[executor.n] # "open" THEN ErrTxDone
  ELSE IF fault = "exec" THEN "driver: bad connection"
  ELSE ""

\* executor.ExecContext(ctx, query, values...): the error, the row written (if
\* any), LastInsertId and RowsAffected.
ExecContext(executor, query, values, fault, live) ==
  LET none == [err |-> "", rows |-> <<>>, id |-> 0, affected |-> 0]
      rerr == ResourceErr(executor, fault, live)
      ins(name, age) ==
        [none EXCEPT !.rows = <<[id |-> nextId, name |-> name, age |-> age]>>,
                     !.id = nextId, !.affected = 1]
  IN
  IF rerr # "" THEN [none EXCEPT !.err = rerr]
  ELSE IF query \in {InsertSQL, InsertTxSQL} THEN
    IF Len(values) # 2 THEN [none EXCEPT !.err = "sql: wrong number of arguments"]
    ELSE IF values[1].kind = "str" /\ values[2].kind = "int"
      THEN ins(values[1].s, values[2].n)
    ELSE IF values[2].kind = "nilres"
      THEN [none EXCEPT !.err = "NOT NULL constraint failed: users.age"]
    ELSE [none EXCEPT !.err = "sql: converting argument type"]
  ELSE IF query = InsertNullSQL THEN
    [none EXCEPT !.err = "NOT NULL constraint failed: users.age"]
  ELSE IF query = InsertSteveSQL THEN
    IF Len(values) # 0 THEN [none EXCEPT !.err = "sql: wrong number of arguments"]
    ELSE ins(SteveRow.name, SteveRow.age)
  ELSE none

\* executor.QueryContext(ctx, query, values...): the error, or the cursor's rows.
QueryContext(executor, query, values, fault, live) ==
  LET rerr == ResourceErr(executor, fault, live) IN
  IF rerr # "" THEN [err |-> rerr, rows |-> <<>>]
  ELSE IF query = SelectOneSQL THEN
    IF Len(values) # 1 THEN [err |-> "sql: wrong number of arguments", rows |-> <<>>]
    ELSE IF values[1].kind = "res" THEN [err |-> "sql: converting argument type", rows |-> <<>>]
    ELSE [err |-> "",
          rows |-> SortedRows({r \in Visible(executor) :
                                 values[1].kind = "int" /\ r.id = values[1].n})]
  ELSE IF query = SelectAllSQL THEN
    IF Len(values) # 0 THEN [err |-> "sql: wrong number of arguments", rows |-> <<>>]
    ELSE [err |-> "", rows |-> SortedRows(Visible(executor))]
  ELSE [err |-> "sql: statement returns no rows", rows |-> <<>>]

\* sqlscan.ScanOne / sqlscan.ScanRow: exactly one row into dst; no row is
\* sql.ErrNoRows.
ScanOne(rows, fault) ==
  IF fault = "scan" THEN [err |-> "scany: scan failed", rows |-> <<>>]
  ELSE IF Len(rows) = 0 THEN [err |-> ErrNoRows, rows |-> <<>>]
  ELSE IF Len(rows) > 1 THEN [err |-> "scany: expected 1 row", rows |-> <<>>]
  ELSE [err |-> "", rows |-> rows]

\* sqlscan.ScanRow: the cursor's current row into dst, as the code takes it
\* to behave (sql.ErrNoRows when there is none).
ScanRow(rows, fault) ==
  IF fault = "scan" THEN [err |-> "scany: scan failed", rows |-> <<>>]
  ELSE IF Len(rows) = 0 THEN [err |-> ErrNoRows, rows |-> <<>>]
  ELSE [err |-> "", rows |-> <<rows[1]>>]

\* sqlscan.ScanAll: every row into the slice.
ScanAll(rows, fault) ==
  IF fault = "scan" THEN [err |-> "scany: scan failed", rows |-> <<>>]
  ELSE [err |-> "", rows |-> rows]

\* ------------------------------------------------------------- the closures
\* Route, had the override been left among the parameters.
RouteForwardAll(args) ==
  IF Len(args) >= 1 /\ IsDBResource(args[1])
    THEN [executor |-> args[1], values |-> args]
    ELSE [executor |-> handle, values |-> args]

\* Route, had the statement always gone to the default resource.
RouteDefaultOnly(args) ==
  IF Len(args) >= 1 /\ IsDBResource(args[1])
    THEN [executor |-> handle, values |-> Tail(args)]
    ELSE [executor |-> handle, values |-> args]

\* The first lines of exec and of Query: the resource to run on and the query
\* parameters, from the call's arguments.
Route(args) ==
  IF Len(args) >= 1 /\ IsDBResource(args[1])
    THEN [executor |-> args[1], values |-> Tail(args)]
    ELSE [executor |-> handle, values |-> args]

\* execResult, had the two counts been returned in the other order.
execResultSwapped(res, fault) ==
  IF res.err # "" THEN [id |-> 0, affected |-> 0, err |-> res.err]
  ELSE IF lastInsertIDSupport /\ fault = "lastid"
    THEN [id |-> 0, affected |-> 0, err |-> "LastInsertId is not supported"]
  ELSE IF fault = "affected"
    THEN [id |-> 0, affected |-> 0, err |-> "RowsAffected is not supported"]
  ELSE [id |-> res.affected,
        affected |-> IF lastInsertIDSupport THEN res.id ELSE 0, err |-> ""]

\* exec, after ExecContext returned res: (id, affected, err).
execResult(res, fault) ==
  IF res.err # "" THEN [id |-> 0, affected |-> 0, err |-> res.err]
  ELSE IF lastInsertIDSupport /\ fault = "lastid"
    THEN [id |-> 0, affected |-> 0, err |-> "LastInsertId is not supported"]
  ELSE IF fault = "affected"
    THEN [id |-> 0, affected |-> 0, err |-> "RowsAffected is not supported"]
  ELSE [id |-> IF lastInsertIDSupport THEN res.id ELSE 0,
        affected |-> res.affected, err |-> ""]

\* An `any` holding nothing (Query's "return nil, err").
NilIface == [typ |-> <<"invalid">>, isNil |-> TRUE, rows |-> <<>>, n |-> 0, err |-> ""]

\* Query, after QueryContext returned q: the `any` it returns and its error.
\* opErr is what ExecContext or the scanner reported, sql.ErrNoRows excepted;
\* panic is reflect.MakeSlice refusing a type that is no slice.
QueryResult(q, one, oType, fault) ==
  IF q.err # ""
    THEN [panic |-> FALSE, val |-> NilIface, err |-> q.err, opErr |-> q.err]
  ELSE IF one THEN
    LET scan == IF Kind(oType) = "ptr" THEN ScanOne(q.rows, fault)
                ELSE ScanRow(q.rows, fault)
        opErr == IF scan.err = ErrNoRows THEN "" ELSE scan.err
    IN
    IF Kind(oType) = "ptr" THEN
      IF scan.err = ErrNoRows
        THEN [panic |-> FALSE, val |-> Zero(oType), err |-> "", opErr |-> ""]
        ELSE [panic |-> FALSE, val |-> [New(Elem(oType)) EXCEPT !.rows = scan.rows],
              err |-> scan.err, opErr |-> opErr]
    ELSE
      \* dstRefValue.Interface(): the pointer reflect.New(oType), not its Elem()
      [panic |-> FALSE, val |-> [New(oType) EXCEPT !.rows = scan.rows],
       err |-> opErr, opErr |-> opErr]
  ELSE
    IF Kind(oType) # "slice"
      THEN [panic |-> TRUE, val |-> NilIface, err |-> "", opErr |-> ""]
    ELSE
      LET scan == ScanAll(q.rows, fault) IN
      [panic |-> FALSE, val |-> [typ |-> oType, isNil |-> FALSE, rows |-> scan.rows,
                                 n |-> 0, err |-> ""],
       err |-> scan.err, opErr |-> scan.err]

Return(results) == [kind |-> "return", cause |-> "none", perr |-> "", results |-> results]
Panic(cause, err) == [kind |-> "panic", cause |-> cause, perr |-> err, results |-> <<>>]

\* ExecClosure, had the error-only closure panicked like the one returning nothing.
ExecClosurePanics(conv, r) ==
  CASE conv = "exec0" -> IF r.err # "" THEN Panic("error", r.err) ELSE Return(<<>>)
    [] conv = "exec1" -> IF r.err # "" THEN Panic("error", r.err)
                         ELSE Return(<<getErrorValue(r.err)>>)
    [] conv = "exec2" -> IF r.err # "" THEN Panic("error", r.err)
                         ELSE Return(<<I64(r.id), I64(r.affected)>>)
    [] conv = "exec3" -> Return(<<I64(r.id), I64(r.affected), getErrorValue(r.err)>>)

\* The four closures of an @exec field, r being exec's (id, affected, err).
ExecClosure(conv, r) ==
  CASE conv = "exec0" -> IF r.err # "" THEN Panic("error", r.err) ELSE Return(<<>>)
    [] conv = "exec1" -> Return(<<getErrorValue(r.err)>>)
    [] conv = "exec2" -> IF r.err # "" THEN Panic("error", r.err)
                         ELSE Return(<<I64(r.id), I64(r.affected)>>)
    [] conv = "exec3" -> Return(<<I64(r.id), I64(r.affected), getErrorValue(r.err)>>)

\* The two closures of a @query / @queryOne field, r being Query's result.
QueryClosure(conv, out0, r) ==
  IF r.panic THEN Panic("reflect", "reflect.MakeSlice of non-slice type")
  ELSE CASE conv = "query1" -> IF r.err # "" THEN Panic("error", r.err)
                               ELSE Return(<<r.val>>)
         [] conv = "query2" -> Return(<<IF r.val = NilIface THEN Zero(out0) ELSE r.val,
                                        getErrorValue(r.err)>>)

\* reflect.MakeFunc's check of what a closure returned against the declared
\* results: each value must be assignable to the declared type, or the call
\* panics.
MakeFunc(outs, outcome) ==
  IF outcome.kind = "return"
     /\ \E k \in 1..Len(outs) : outcome.results[k].typ # outs[k]
    THEN Panic("reflect", "value is not assignable to the declared result type")
    ELSE outcome

\* ------------------------------------------------------------- targets
Field(name, exec, queryAll, queryOne, ins, outs) ==
  [name |-> name, isFunc |-> TRUE, exported |-> TRUE, exec |-> exec,
   queryAll |-> queryAll, queryOne |-> queryOne, ins |-> ins, outs |-> outs]

\* The struct of the tests.
UserRepository ==
  << Field("AddUser", InsertSQL, <<>>, <<>>, <<"string", "int">>,
           <<int64Type, int64Type, errorType>>),
     Field("SelectUser", <<>>, <<>>, SelectOneSQL, <<"int64">>,
           <<PtrUserType, errorType>>),
     Field("SelectAllUsers", <<>>, SelectAllSQL, <<>>, <<>>, <<SliceType>>),
     Field("InsertUserQueryLoader", FileSteve, <<>>, <<>>, <<>>,
           <<int64Type, int64Type>>),
     Field("AddUserTxWithError", InsertNullSQL, <<>>, <<>>,
           <<"DBResource", "string", "int">>, <<errorType>>),
     Field("AddUserTx", InsertTxSQL, <<>>, <<>>, <<"DBResource", "string", "int">>,
           <<int64Type, int64Type, errorType>>) >>

\* The same, with what a caller needs to read inside a transaction.
TxRepository ==
  << Field("AddUserTx", InsertTxSQL, <<>>, <<>>, <<"DBResource", "string", "int">>,
           <<int64Type, int64Type, errorType>>),
     Field("SelectAllUsers", <<>>, SelectAllSQL, <<>>, <<>>, <<SliceType>>),
     Field("SelectAllUsersTx", <<>>, SelectAllSQL, <<>>, <<"DBResource">>,
           <<SliceType, errorType>>) >>

PtrToStruct(fields) == [kind |-> "ptr", elem |-> "struct", fields |-> fields]

\* Targets that are no pointer to a struct: nil, a struct value, a *int.
BadTargets ==
  { [kind |-> "nil", elem |-> "none", fields |-> <<>>],
    [kind |-> "nonptr", elem |-> "struct", fields |-> <<>>],
    [kind |-> "ptr", elem |-> "int", fields |-> <<>>] }

\* The directive tags a field may carry: none, one, or several.
TagSets ==
  { [exec |-> <<>>, queryAll |-> <<>>, queryOne |-> <<>>],
    [exec |-> InsertSQL, queryAll |-> <<>>, queryOne |-> <<>>],
    [exec |-> InsertNullSQL, queryAll |-> <<>>, queryOne |-> <<>>],
    [exec |-> FileSteve, queryAll |-> <<>>, queryOne |-> <<>>],
    [exec |-> FileSteveExt, queryAll |-> <<>>, queryOne |-> <<>>],
    [exec |-> FileMissing, queryAll |-> <<>>, queryOne |-> <<>>],
    [exec |-> <<>>, queryAll |-> SelectAllSQL, queryOne |-> <<>>],
    [exec |-> <<>>, queryAll |-> <<>>, queryOne |-> SelectOneSQL],
    [exec |-> InsertSQL, queryAll |-> <<>>, queryOne |-> SelectOneSQL],
    [exec |-> InsertSQL, queryAll |-> SelectAllSQL, queryOne |-> <<>>] }

\* The number of directives a field carries.
NumDirectives(f) ==
  Cardinality({k \in {"exec", "queryAll", "queryOne"} : f[k] # <<>>})

\* The declared results of a field.
OutShapes ==
  { <<>>, <<errorType>>, <<int64Type>>, <<int64Type, int64Type>>,
    <<int64Type, int64Type, errorType>>, <<int64Type, int64Type, errorType, errorType>>,
    <<PtrUserType>>, <<PtrUserType, errorType>>, <<UserType>>, <<UserType, errorType>>,
    <<SliceType>>, <<SliceType, errorType>>, <<PtrUserType, int64Type>> }

\* The declared parameters of a field.
InShapes ==
  { <<>>, <<"string", "int">>, <<"DBResource", "string", "int">>, <<"int64">>,
    <<"DBResource", "int64">>, <<"DBResource">>, <<"string", "DBResource">> }

FieldNames == <<"F1", "F2", "F3", "F4">>

\* What a struct may declare at position i: exported func fields with any
\* tags and results, an unexported func field, a field that is no func.
FieldsAt(i, ins) ==
  { Field(FieldNames[i], t.exec, t.queryAll, t.queryOne, in, o) :
      t \in TagSets, in \in ins, o \in OutShapes }
  \cup { [Field(FieldNames[i], InsertSQL, <<>>, <<>>, <<>>, <<>>) EXCEPT !.exported = FALSE],
         [Field(FieldNames[i], <<>>, <<>>, <<>>, <<>>, <<>>) EXCEPT !.isFunc = FALSE] }

RECURSIVE Structs(_, _)
\* Every struct of exactly n fields.
Structs(n, ins) ==
  IF n = 0 THEN {<<>>}
  ELSE {Append(fs, f) : fs \in Structs(n - 1, ins), f \in FieldsAt(n, ins)}

\* The targets Bind is checked on: structs of up to max fields, and the rest.
BindTargets(max) ==
  BadTargets \cup
  {PtrToStruct(fs) : fs \in UNION {Structs(n, {<<>>}) : n \in 0..max}}

\* The targets whose functions are called: one field, any parameters.
CallTargets == {PtrToStruct(fs) : fs \in Structs(1, InShapes)}

\* ------------------------------------------------------------- calls
\* The values a caller may pass for a parameter of the declared type.  A
\* DBResource is one of overrides (nil, the database itself) or a transaction
\* once begun.
ValuesOf(type) ==
  CASE type = "string" -> {StrV(s) : s \in names}
    [] type = "int" -> {IntV(45)}
    [] type = "int64" -> {IntV(i) : i \in 1..(MaxRows + 1)}
    [] type = "DBResource" ->
         overrides \cup {Res(t) : t \in {u \in Txs : txState[u] # "none"}}

RECURSIVE ArgsFor(_)
\* Every argument list of the declared parameters.
ArgsFor(ins) ==
  IF ins = <<>> THEN {<<>>}
  ELSE {<<v>> \o rest : v \in ValuesOf(Head(ins)), rest \in ArgsFor(Tail(ins))}

\* live: ctx was not yet cancelled when the statement was handed over.
Idle == [active |-> FALSE, field |-> 0, args |-> <<>>, executor |-> handle,
         values |-> <<>>, live |-> FALSE]

\* opErr: the error the driver or the scanner reported to the closure (no
\* rows excepted); nrows: the rows the cursor held; wrote: a row was written;
\* interrupted: ctx was cancelled while the operation was outstanding.
NoCall == [valid |-> FALSE, field |-> 0, args |-> <<>>, executor |-> handle,
           values |-> <<>>, opErr |-> "", nrows |-> 0, wrote |-> FALSE,
           interrupted |-> FALSE, kind |-> "none", cause |-> "none", perr |-> "", results |-> <<>>]

\* What the caller of an insert asked for: the transaction named by a leading
\* resource argument (0: none), and the row, from the remaining arguments or,
\* for a statement kept in a file, from the file.
Asked(field, args) ==
  LET over == Len(args) >= 1 /\ args[1].kind = "res"
      params == IF over THEN Tail(args) ELSE args
      text == Directive(field).text
  IN [via |-> IF over THEN args[1].n ELSE 0,
      name |-> IF text \in {FileSteve, FileSteveExt} THEN SteveRow.name
               ELSE IF Len(params) >= 1 THEN params[1].s ELSE "",
      age |-> IF text \in {FileSteve, FileSteveExt} THEN SteveRow.age
              ELSE IF Len(params) >= 2 THEN params[2].n ELSE 0]

\* Bind(ctx, handle, dst, qLoder, lastInsertIDSupport)
Bind ==
  /\ bindState = "unbound"
  /\ LET r == BindResult(dst) IN
       /\ bindState' = r.result
       /\ bindErr' = r.errField
       /\ value' = r.value
  /\ UNCHANGED <<dst, lastInsertIDSupport, goroutines, faults, names, overrides,
                 cancelled, committed,
                 nextId, txState, txWrites, inflight, last, inserted>>

\* A goroutine calls the function installed in field i: the closure picks
\* the resource and the parameters, and hands the statement to the driver.
CallStart(g, i, args) ==
  /\ bindState # "unbound"
  /\ value[i].set
  /\ ~inflight[g].active
  /\ LET r == Route(args) IN
       inflight' = [inflight EXCEPT ![g] =
                      [active |-> TRUE, field |-> i, args |-> args,
                       executor |-> r.executor, values |-> r.values,
                       live |-> ~cancelled]]
  /\ last' = NoCall
  /\ UNCHANGED <<dst, lastInsertIDSupport, goroutines, faults, names, overrides,
                 bindState, bindErr, value,
                 cancelled, committed, nextId, txState, txWrites, inserted>>

\* The driver answers an @exec call, and the closure returns or panics.
ExecFinish(g, fault) ==
  LET c == inflight[g]
      fn == value[c.field]
      res == ExecContext(c.executor, fn.query, c.values, fault, c.live)
      r == execResult(res, fault)
      out == MakeFunc(fn.outs, ExecClosure(fn.conv, r))
      asked == Asked(dst.fields[c.field], c.args)
  IN
  /\ c.active /\ fn.isExec
  /\ fault \in {"none", "late", "exec", "lastid", "affected"}
  /\ res.rows # <<>> => nextId <= MaxRows
  /\ IF res.rows = <<>>
       THEN UNCHANGED <<committed, nextId, txWrites, inserted>>
       ELSE /\ nextId' = nextId + 1
            /\ IF c.executor.n = 0
                 THEN /\ committed' = committed \cup {res.rows[1]}
                      /\ UNCHANGED txWrites
                 ELSE /\ txWrites' = [txWrites EXCEPT ![c.executor.n] = @ \cup {res.rows[1]}]
                      /\ UNCHANGED committed
            /\ inserted' = inserted \cup
                 {[id |-> res.rows[1].id, via |-> asked.via, name |-> asked.name,
                   age |-> asked.age,
                   retId |-> IF out.kind = "return" /\ Len(out.results) >= 2
                             THEN out.results[1].n ELSE 0]}
  /\ last' = [valid |-> TRUE, field |-> c.field, args |-> c.args,
              executor |-> c.executor, values |-> c.values, opErr |-> r.err,
              nrows |-> 0, wrote |-> res.rows # <<>>,
              interrupted |-> c.live /\ cancelled,
              kind |-> out.kind, cause |-> out.cause, perr |-> out.perr,
              results |-> out.results]
  /\ inflight' = [inflight EXCEPT ![g] = Idle]
  /\ UNCHANGED <<dst, lastInsertIDSupport, goroutines, faults, names, overrides,
                 bindState, bindErr, value,
                 cancelled, txState>>

\* The driver answers a @query / @queryOne call, the rows are scanned, and
\* the closure returns or panics.
QueryFinish(g, fault) ==
  LET c == inflight[g]
      fn == value[c.field]
      q == QueryContext(c.executor, fn.query, c.values, fault, c.live)
      r == QueryResult(q, fn.single, fn.outs[1], fault)
      out == MakeFunc(fn.outs, QueryClosure(fn.conv, fn.outs[1], r))
  IN
  /\ c.active /\ ~fn.isExec
  /\ fault \in {"none", "late", "exec", "scan"}
  /\ last' = [valid |-> TRUE, field |-> c.field, args |-> c.args,
              executor |-> c.executor, values |-> c.values, opErr |-> r.opErr,
              nrows |-> Len(q.rows), wrote |-> FALSE,
              interrupted |-> c.live /\ cancelled,
              kind |-> out.kind, cause |-> out.cause, perr |-> out.perr,
              results |-> out.results]
  /\ inflight' = [inflight EXCEPT ![g] = Idle]
  /\ UNCHANGED <<dst, lastInsertIDSupport, goroutines, faults, names, overrides,
                 bindState, bindErr, value,
                 cancelled, committed, nextId, txState, txWrites, inserted>>

\* ctx, the context given to Bind and used by every call, is cancelled.
CancelCtx ==
  /\ ~cancelled
  /\ cancelled' = TRUE
  /\ UNCHANGED <<dst, lastInsertIDSupport, goroutines, faults, names, overrides,
                 bindState, bindErr, value,
                 committed, nextId, txState, txWrites, inflight, last, inserted>>

\* db.Begin(): transactions are begun in the order of their numbers.
BeginTx(t) ==
  /\ txState[t] = "none"
  /\ \A u \in Txs : u < t => txState[u] # "none"
  /\ txState' = [txState EXCEPT ![t] = "open"]
  /\ UNCHANGED <<dst, lastInsertIDSupport, goroutines, faults, names, overrides,
                 bindState, bindErr, value,
                 cancelled, committed, nextId, txWrites, inflight, last, inserted>>

\* tx.Commit()
Commit(t) ==
  /\ txState[t] = "open"
  /\ txState' = [txState EXCEPT ![t] = "committed"]
  /\ committed' = committed \cup txWrites[t]
  /\ txWrites' = [txWrites EXCEPT ![t] = {}]
  /\ UNCHANGED <<dst, lastInsertIDSupport, goroutines, faults, names, overrides,
                 bindState, bindErr, value,
                 cancelled, nextId, inflight, last, inserted>>

\* tx.Rollback()
Rollback(t) ==
  /\ txState[t] = "open"
  /\ txState' = [txState EXCEPT ![t] = "rolledback"]
  /\ txWrites' = [txWrites EXCEPT ![t] = {}]
  /\ UNCHANGED <<dst, lastInsertIDSupport, goroutines, faults, names, overrides,
                 bindState, bindErr, value,
                 cancelled, committed, nextId, inflight, last, inserted>>

\* ------------------------------------------------------------- specifications
\* The states Bind may be called in: a target, the flag, the callers and what
\* they pass, the transactions begun by then, the table as it then is.
Start(targets, flags, gs, fs, strs, ress, begun, tables) ==
  /\ dst \in targets
  /\ lastInsertIDSupport \in flags
  /\ goroutines = gs
  /\ faults = fs
  /\ names = strs
  /\ overrides = ress
  /\ bindState = "unbound"
  /\ bindErr = ""
  /\ value = [i \in 1..Len(dst.fields) |-> NoFunc]
  /\ cancelled = FALSE
  /\ committed \in tables
  /\ nextId = Cardinality(committed) + 1
  /\ txState = [t \in Txs |-> IF t \in begun THEN "open" ELSE "none"]
  /\ txWrites = [t \in Txs |-> {}]
  /\ inflight = [g \in gs |-> Idle]
  /\ last = NoCall
  /\ inserted = {}

Call ==
  \/ \E g \in goroutines, i \in 1..Len(dst.fields) :
       \E args \in ArgsFor(dst.fields[i].ins) : CallStart(g, i, args)
  \/ \E g \in goroutines, fault \in faults : ExecFinish(g, fault)
  \/ \E g \in goroutines, fault \in faults : QueryFinish(g, fault)

Transact ==
  \/ \E t \in Txs : BeginTx(t)
  \/ \E t \in Txs : Commit(t)
  \/ \E t \in Txs : Rollback(t)

AllFaults == {"none", "late", "exec", "lastid", "affected", "scan"}

\* A table holding one row already.
JohnRow == [id |-> 1, name |-> "john", age |-> 45]

\* Bind on every target.
InitBind == Start(BindTargets(MaxFields), BOOLEAN, {1}, {"none"}, {"john"}, {}, {}, {{}})
NextBind == Bind
SpecBind == InitBind /\ [][NextBind]_vars

\* One bound function, called by one goroutine, with a transaction open, a
\* table that is empty or not, a driver that may fail and a context that
\* may be cancelled.
Init == Start(CallTargets, BOOLEAN, {1}, AllFaults, {"john"}, {NilRes, handle}, {1},
              {{}, {JohnRow}})
Next == Bind \/ Call \/ CancelCtx
Spec == Init /\ [][Next]_vars

\* The repository of the tests and its database, with no transaction begun.
InitRepo == Start({PtrToStruct(UserRepository)}, BOOLEAN, {1}, {"none"}, {"john", "jane"},
                  {NilRes, handle}, {}, {{}})
NextRepo == Bind \/ Call
SpecRepo == InitRepo /\ [][NextRepo]_vars

\* Two goroutines writing and reading through transactions, and reading
\* through the database.
InitTx == Start({PtrToStruct(TxRepository)}, {TRUE}, {1, 2}, {"none"}, {"john"}, {}, {}, {{}})
NextTx == Bind \/ Call \/ Transact
SpecTx == InitTx /\ [][NextTx]_vars

\* ------------------------------------------------------------- properties
IsBindable(f) == f.isFunc /\ f.exported
Fields == dst.fields
FieldIdx == 1..Len(dst.fields)
Bound == bindState # "unbound"
IsStructTarget == dst.kind = "ptr" /\ dst.elem = "struct"

\* The return shapes the specification allows for a directive.
SupportedShape(kind, outs) ==
  CASE kind = "exec" ->
         outs \in {<<>>, <<errorType>>, <<int64Type, int64Type>>,
                   <<int64Type, int64Type, errorType>>}
    [] kind = "queryOne" ->
         outs \in {<<PtrUserType>>, <<UserType>>, <<PtrUserType, errorType>>,
                   <<UserType, errorType>>}
    [] kind = "queryAll" -> outs \in {<<SliceType>>, <<SliceType, errorType>>}
    [] OTHER -> FALSE

Supported(f) == SupportedShape(Directive(f).kind, f.outs)

\* The field and the closure of the call that completed last.
LastField == Fields[last.field]
LastFn == value[last.field]
ReturnsError(conv) == conv \in {"exec1", "exec3", "query2"}
\* The error value the last call returned (its last result).
LastErr == last.results[Len(last.results)]

\* C1: Bind returns no error and every exported func field is populated, or
\* it returns an error and no field of the struct is left bound.
C1_BindAllOrNothing ==
  /\ bindState = "ok" => \A i \in FieldIdx : IsBindable(Fields[i]) => value[i].set
  /\ bindState = "error" => \A i \in FieldIdx : ~value[i].set

\* C2: an exported func field with no directive, or with more than one, makes
\* Bind fail and is not bound; a field is bound only with exactly one.
C2_ExactlyOneDirective ==
  Bound /\ IsStructTarget =>
    \A i \in FieldIdx :
      IsBindable(Fields[i]) /\ NumDirectives(Fields[i]) # 1 =>
        bindState # "ok" /\ ~value[i].set

\* C3: a return shape outside the supported conventions is rejected by Bind,
\* so no call of a bound function fails on a mismatch between what the closure
\* returns and what the field declares.
C3_NoCallTimeMismatch ==
  last.valid => last.cause # "reflect"

\* C4: a call whose first argument is a resource runs on that resource with
\* the remaining arguments as parameters, in order; any other call runs on the
\* default resource with all its arguments as parameters.  Seen in what the
\* driver is handed, and in where an inserted row lands and what it holds.
RoutedAsAsked(c) ==
  IF Len(c.args) >= 1 /\ c.args[1].kind = "res"
    THEN c.executor = c.args[1] /\ c.values = Tail(c.args)
    ELSE c.executor = handle /\ c.values = c.args

C4_Routing ==
  /\ \A g \in goroutines : inflight[g].active => RoutedAsAsked(inflight[g])
  /\ last.valid => RoutedAsAsked(last)
  /\ \A r \in inserted :
       LET row == [id |-> r.id, name |-> r.name, age |-> r.age] IN
       IF r.via = 0 THEN row \in committed ELSE row \in txWrites[r.via]

C4_Witness ==
  /\ last.valid /\ LastFn.isExec /\ last.wrote
  /\ last.args = <<Res(1), StrV("john"), IntV(45)>>
  /\ last.executor = Res(1)
  /\ last.values = <<StrV("john"), IntV(45)>>
  /\ \E r \in txWrites[1] : r.name = "john" /\ r.age = 45

\* C5: a @queryOne function called when no row matches returns the zero
\* result (a nil pointer, or the zero value of a by-value type) and no error,
\* and does not panic, in both of its conventions.
C5_NoRowsIsZero ==
  (/\ last.valid /\ ~LastFn.isExec /\ LastFn.single
   /\ Supported(LastField)
   /\ last.opErr = "" /\ last.nrows = 0)
  => /\ last.kind = "return"
     /\ last.results[1] = Zero(LastField.outs[1])
     /\ LastFn.conv = "query2" => last.results[2].isNil

\* C6: a call panics exactly when its convention has no error result and the
\* execution or the scan reported an error; with an error result, the error is
\* returned and the call never panics.
C6_PanicIffNoErrorResult ==
  last.valid /\ Supported(LastField) =>
    /\ last.kind = "panic" <=> (~ReturnsError(LastFn.conv) /\ last.opErr # "")
    /\ ReturnsError(LastFn.conv) =>
         last.kind = "return" /\ LastErr.err = last.opErr

\* C7: with generated identifiers supported, a SelectUser by an identifier an
\* insert on the default resource returned yields that insert's row and no
\* error; by an identifier no insert returned, a nil pointer and no error.
\* The insert's statement may be literal or loaded from a file.
IsSelectUser == last.valid /\ LastField.name = "SelectUser"

C7_InsertThenQueryOne ==
  lastInsertIDSupport /\ IsSelectUser =>
    LET id == last.values[1].n IN
    /\ \A r \in inserted :
         r.via = 0 /\ r.retId = id =>
           /\ last.kind = "return"
           /\ ~last.results[1].isNil
           /\ Len(last.results[1].rows) = 1
           /\ last.results[1].rows[1].name = r.name
           /\ last.results[1].rows[1].age = r.age
           /\ last.results[2].isNil
    /\ (\A r \in inserted : r.retId # id) =>
         /\ last.kind = "return"
         /\ last.results[1] = Zero(PtrUserType)
         /\ last.results[2].isNil

C7_Witness ==
  /\ lastInsertIDSupport /\ IsSelectUser
  /\ \E r \in inserted : r.via = 0 /\ r.retId = last.values[1].n /\ r.name = "steve"
  /\ \E r \in inserted : r.via = 0 /\ r.name = "jane"
  /\ ~last.results[1].isNil

\* C8, as claimed: whatever the convention, a cancellation that stops an
\* outstanding operation reaches the caller as a returned error and never as
\* a panic.
C8_CancelNeverPanics ==
  last.valid /\ Supported(LastField) /\ last.interrupted /\ last.opErr = ErrCanceled =>
    ~last.wrote /\ last.kind = "return" /\ LastErr.err = ErrCanceled

\* C8, amended: when the cancellation of ctx (the context given to Bind) stops
\* an outstanding operation, nothing is written, and the error is returned by
\* the conventions with an error result and is the panic of the conventions
\* without one.
C8_CancelFollowsConvention ==
  last.valid /\ Supported(LastField) /\ last.interrupted /\ last.opErr = ErrCanceled =>
    /\ ~last.wrote
    /\ IF ReturnsError(LastFn.conv)
         THEN last.kind = "return" /\ LastErr.err = ErrCanceled
         ELSE last.kind = "panic" /\ last.cause = "error" /\ last.perr = ErrCanceled

C8_Witness ==
  /\ last.valid /\ Supported(LastField) /\ last.interrupted
  /\ last.opErr = ErrCanceled
  /\ LastFn.conv = "exec3" /\ last.kind = "return"
  /\ last.args = <<Res(1), StrV("john"), IntV(45)>>

\* C9: calls with distinct transaction handles do not interfere.  Each row is
\* written only to the transaction its caller named; a read returns only rows
\* written through its own resource, outside any transaction, or by a
\* transaction that committed; a rollback discards the rows of its
\* transaction and a commit keeps them.
RowOf(r) == [id |-> r.id, name |-> r.name, age |-> r.age]
OtherWrites(t) == UNION {txWrites[u] : u \in Txs \ {t}}

C9_TxIsolation ==
  /\ \A g \in goroutines : inflight[g].active => RoutedAsAsked(inflight[g])
  /\ \A r \in inserted :
       IF r.via = 0 THEN RowOf(r) \in committed
       ELSE /\ RowOf(r) \notin OtherWrites(r.via)
            /\ txState[r.via] = "open" =>
                 RowOf(r) \in txWrites[r.via] /\ RowOf(r) \notin committed
            /\ txState[r.via] = "committed" => RowOf(r) \in committed
            /\ txState[r.via] = "rolledback" =>
                 RowOf(r) \notin committed /\ RowOf(r) \notin txWrites[r.via]
  /\ (last.valid /\ ~LastFn.isExec /\ last.kind = "return") =>
       \A k \in 1..Len(last.results[1].rows) :
         \E r \in inserted :
           /\ RowOf(r) = last.results[1].rows[k]
           /\ \/ r.via = 0
              \/ (Len(last.args) >= 1 /\ last.args[1] = Res(r.via))
              \/ txState[r.via] = "committed"

C9_Witness ==
  /\ txState[1] = "rolledback" /\ txState[2] = "committed"
  /\ \E r \in inserted : r.via = 1
  /\ \E r \in inserted : r.via = 2
  /\ last.valid /\ LastField.name = "SelectAllUsers" /\ last.kind = "return"
  /\ Len(last.results[1].rows) = 1
  /\ \E r \in inserted : r.via = 2 /\ RowOf(r) = last.results[1].rows[1]

\* C10: for a target that is no pointer to a struct (nil, a value, a pointer
\* to something else) Bind returns an error, does not panic, binds nothing.
C10_BadTargetIsError ==
  Bound /\ ~IsStructTarget =>
    bindState = "error" /\ \A i \in FieldIdx : ~value[i].set
=============================================================================
